---- MODULE Spec2Model ----
(***************************************************************************)
(* Model of checker.py: the LinkChecker class (resolution cache            *)
(* seen_links, document cache soup_mapping, counters, fail_map), the       *)
(* helpers it calls (urlsplit/urldefrag, rebase_link, links_in_soup,       *)
(* anchor_in_soup, html_files_for_dir) and the check() entry point.        *)
(*                                                                         *)
(* Strings are sequences of one-character strings, so that the string      *)
(* functions of the source are computed and not assumed.                   *)
(***************************************************************************)
EXTENDS Integers, Sequences, FiniteSets, TLC

\* ---------------------------------------------------------------------
\* Bounds
\* ---------------------------------------------------------------------

\* longest ITEMS argument list given to check()
MaxItems == 2

\* ---------------------------------------------------------------------
\* String helpers (Python str methods used by the source)
\* ---------------------------------------------------------------------

\* Python None where a string is expected: not a string of one-character letters
None == <<"None">>

\* str.find(c): index (1-based) of the first occurrence of c, 0 when absent
Find(s, c) ==
    IF \E i \in 1..Len(s) : s[i] = c
    THEN CHOOSE i \in 1..Len(s) : s[i] = c /\ \A j \in 1..(i-1) : s[j] # c
    ELSE 0

\* str.rfind(c): index (1-based) of the last occurrence of c, 0 when absent
RFind(s, c) ==
    IF \E i \in 1..Len(s) : s[i] = c
    THEN CHOOSE i \in 1..Len(s) : s[i] = c /\ \A j \in (i+1)..Len(s) : s[j] # c
    ELSE 0

\* s[i:] with a 1-based i
From(s, i) == SubSeq(s, i, Len(s))

StartsWith(s, c) == Len(s) > 0 /\ s[1] = c

EndsWith(s, c) == Len(s) > 0 /\ s[Len(s)] = c

\* str.rstrip(c)
RECURSIVE RStrip(_, _)
RStrip(s, c) == IF EndsWith(s, c) THEN RStrip(SubSeq(s, 1, Len(s) - 1), c) ELSE s

\* str.split(c): the list of the pieces between the occurrences of c
RECURSIVE Split(_, _)
Split(s, c) ==
    LET i == Find(s, c)
    IN IF i = 0 THEN <<s>>
       ELSE <<SubSeq(s, 1, i - 1)>> \o Split(From(s, i + 1), c)

\* c.join(parts)
RECURSIVE JoinWith(_, _)
JoinWith(parts, c) ==
    IF Len(parts) = 0 THEN <<>>
    ELSE IF Len(parts) = 1 THEN parts[1]
    ELSE parts[1] \o <<c>> \o JoinWith(Tail(parts), c)

UpperToLower == [c \in {"H", "T", "M"} |->
                   IF c = "H" THEN "h" ELSE IF c = "T" THEN "t" ELSE "m"]

\* str.lower()
Lower(s) == [i \in 1..Len(s) |-> IF s[i] \in DOMAIN UpperToLower
                                  THEN UpperToLower[s[i]] ELSE s[i]]

Letters == {"a", "b", "c", "d", "h", "k", "m", "s", "t", "u", "x", "z",
            "H", "T", "M"}

\* urllib.parse.scheme_chars: letters, digits and "+-."
SchemeChars == Letters \cup {"+", "-", "."}

\* ---------------------------------------------------------------------
\* urllib.parse
\* ---------------------------------------------------------------------

\* urlsplit(url)[0]: the scheme, <<>> when the string carries none
urlsplit_scheme(url) ==
    LET i == Find(url, ":")
    IN IF i > 1 /\ url[1] \in Letters
          /\ \A k \in 1..(i-1) : url[k] \in SchemeChars
       THEN Lower(SubSeq(url, 1, i - 1))
       ELSE <<>>

\* str.find(c, k): index of the first occurrence of c at or after k, 0
\* when absent
FindFrom(s, c, k) ==
    IF \E i \in k..Len(s) : s[i] = c
    THEN CHOOSE i \in k..Len(s) : s[i] = c /\ \A j \in k..(i-1) : s[j] # c
    ELSE 0

\* the members of urllib.parse.uses_relative, uses_netloc and uses_params
\* that can be written with Letters and "+-.": the empty scheme and "mms"
uses_relative == {<<>>, <<"m", "m", "s">>}

uses_netloc == {<<>>, <<"m", "m", "s">>}

uses_params == {<<>>, <<"m", "m", "s">>}

\* _splitnetloc(url, start): <<netloc, rest>>, the netloc going from the
\* index start (counted from 0) to the first "/", "?" or "#" behind it
_splitnetloc(url, start) ==
    LET ds    == {FindFrom(url, c, start + 1) : c \in {"/", "?", "#"}} \ {0}
        delim == IF ds = {} THEN Len(url) + 1
                 ELSE CHOOSE d \in ds : \A e \in ds : d <= e
    IN <<SubSeq(url, start + 1, delim - 1), From(url, delim)>>

\* the one member of a set of one member; in The({e(x) : x \in {v}}) the
\* value v is computed once and named x in e
The(S) == CHOOSE x \in S : TRUE

\* urlsplit(url, scheme): scheme, netloc, path, query and fragment; the
\* second argument is the scheme of a url that carries none
urlsplit(url, scheme) ==
    The({The({
        LET u2 == net[2]
            h  == Find(u2, "#")
            u3 == IF h > 0 THEN SubSeq(u2, 1, h - 1) ELSE u2
            q  == Find(u3, "?")
        IN [scheme   |-> IF sch # <<>> THEN sch ELSE scheme,
            netloc   |-> net[1],
            path     |-> IF q > 0 THEN SubSeq(u3, 1, q - 1) ELSE u3,
            query    |-> IF q > 0 THEN From(u3, q + 1) ELSE <<>>,
            fragment |-> IF h > 0 THEN From(u2, h + 1) ELSE <<>>]
        : net \in {LET u1 == IF sch # <<>> THEN From(url, Find(url, ":") + 1)
                             ELSE url
                   IN IF Len(u1) >= 2 /\ u1[1] = "/" /\ u1[2] = "/"
                      THEN _splitnetloc(u1, 2) ELSE <<<<>>, u1>>}})
        : sch \in {urlsplit_scheme(url)}})

\* _splitparams(url): <<url, params>>; only the branch of a url with a "/"
\* returns early when there is no ";": without a "/" find gives -1 and the
\* slices are url[:-1] and url[0:]
_splitparams(url) ==
    IF Find(url, "/") > 0
    THEN The({IF i = 0 THEN <<url, <<>>>>
              ELSE <<SubSeq(url, 1, i - 1), From(url, i + 1)>>
              : i \in {FindFrom(url, ";", RFind(url, "/"))}})
    ELSE The({IF i = 0 THEN <<SubSeq(url, 1, Len(url) - 1), url>>
              ELSE <<SubSeq(url, 1, i - 1), From(url, i + 1)>>
              : i \in {Find(url, ";")}})

\* urlparse(url, scheme)
urlparse(url, scheme) ==
    The({The({
        [scheme |-> sp.scheme, netloc |-> sp.netloc, path |-> pp[1],
         params |-> pp[2], query |-> sp.query, fragment |-> sp.fragment]
        : pp \in {IF sp.scheme \in uses_params /\ Find(sp.path, ";") > 0
                  THEN _splitparams(sp.path) ELSE <<sp.path, <<>>>>}})
        : sp \in {urlsplit(url, scheme)}})

\* urlunsplit((scheme, netloc, url, query, fragment))
urlunsplit(scheme, netloc, url, query, fragment) ==
    LET u1 == IF netloc # <<>>
                 \/ (scheme # <<>> /\ scheme \in uses_netloc
                     /\ ~(Len(url) >= 2 /\ url[1] = "/" /\ url[2] = "/"))
              THEN <<"/", "/">> \o netloc
                   \o (IF url # <<>> /\ url[1] # "/" THEN <<"/">> \o url ELSE url)
              ELSE url
        u2 == IF scheme # <<>> THEN scheme \o <<":">> \o u1 ELSE u1
        u3 == IF query # <<>> THEN u2 \o <<"?">> \o query ELSE u2
    IN IF fragment # <<>> THEN u3 \o <<"#">> \o fragment ELSE u3

\* urlunparse((scheme, netloc, url, params, query, fragment))
urlunparse(scheme, netloc, url, params, query, fragment) ==
    urlunsplit(scheme, netloc,
               IF params # <<>> THEN url \o <<";">> \o params ELSE url,
               query, fragment)

\* urldefrag(url): <<url without fragment, fragment>>; a url that holds a
\* "#" is parsed and put together again
urldefrag(url) ==
    IF Find(url, "#") = 0 THEN <<url, <<>>>>
    ELSE The({<<urlunparse(p.scheme, p.netloc, p.path, p.params, p.query, <<>>),
                p.fragment>>
              : p \in {urlparse(url, <<>>)}})

\* the loop of urljoin over the segments: ".." drops the last resolved
\* segment, if any, "." is skipped
RECURSIVE ResolveSegments(_, _)
ResolveSegments(segments, resolved_path) ==
    IF Len(segments) = 0 THEN resolved_path
    ELSE IF segments[1] = <<".", ".">>
         THEN ResolveSegments(Tail(segments),
                              IF Len(resolved_path) = 0 THEN resolved_path
                              ELSE SubSeq(resolved_path, 1, Len(resolved_path) - 1))
         ELSE IF segments[1] = <<".">>
              THEN ResolveSegments(Tail(segments), resolved_path)
              ELSE ResolveSegments(Tail(segments), Append(resolved_path, segments[1]))

\* urljoin: the segments of the path of url behind those of the path of
\* base without its last one, empty segments in the middle left out
MergedSegments(bpath, path) ==
    IF StartsWith(path, "/") THEN Split(path, "/")
    ELSE The({IF Len(all) < 2 THEN all
              ELSE <<all[1]>>
                   \o SelectSeq(SubSeq(all, 2, Len(all) - 1), LAMBDA x : x # <<>>)
                   \o <<all[Len(all)]>>
              : all \in {The({IF bp0[Len(bp0)] # <<>>
                              THEN SubSeq(bp0, 1, Len(bp0) - 1) ELSE bp0
                              : bp0 \in {Split(bpath, "/")}})
                         \o Split(path, "/")}})

\* urljoin: the path of url resolved against the path of base
MergedPath(bpath, path) ==
    The({The({
        JoinWith(IF segments[Len(segments)] \in {<<".">>, <<".", ".">>}
                 THEN Append(resolved_path, <<>>) ELSE resolved_path, "/")
        : resolved_path \in {ResolveSegments(segments, <<>>)}})
        : segments \in {MergedSegments(bpath, path)}})

\* urljoin(base, url)
urljoin(base, url) ==
    IF Len(base) = 0 THEN url
    ELSE IF Len(url) = 0 THEN base
    ELSE The({The({
        IF u.scheme # b.scheme \/ u.scheme \notin uses_relative
        THEN url
        ELSE IF u.scheme \in uses_netloc /\ u.netloc # <<>>
        THEN urlunparse(u.scheme, u.netloc, u.path, u.params, u.query, u.fragment)
        ELSE IF u.path = <<>> /\ u.params = <<>>
        THEN urlunparse(u.scheme,
                        IF u.scheme \in uses_netloc THEN b.netloc ELSE u.netloc,
                        b.path, b.params,
                        IF u.query = <<>> THEN b.query ELSE u.query,
                        u.fragment)
        ELSE The({urlunparse(u.scheme,
                             IF u.scheme \in uses_netloc THEN b.netloc ELSE u.netloc,
                             IF joined = <<>> THEN <<"/">> ELSE joined,
                             u.params, u.query, u.fragment)
                  : joined \in {MergedPath(b.path, u.path)}})
        : u \in {urlparse(url, b.scheme)}})
        : b \in {urlparse(base, <<>>)}})

\* ---------------------------------------------------------------------
\* os.path
\* ---------------------------------------------------------------------

\* process working directory
Cwd == <<"/">>

\* os.path.dirname
dirname(p) ==
    LET i    == RFind(p, "/")
        head == SubSeq(p, 1, i)
    IN IF Len(head) > 0 /\ \E k \in 1..Len(head) : head[k] # "/"
       THEN RStrip(head, "/")
       ELSE head

\* os.path.join of two components
join2(a, b) ==
    IF StartsWith(b, "/") THEN b
    ELSE IF Len(a) = 0 \/ EndsWith(a, "/") THEN a \o b
    ELSE a \o <<"/">> \o b

\* os.path.join(a, b, c)
join(a, b, c) == join2(join2(a, b), c)

\* the component loop of os.path.normpath
RECURSIVE NormComps(_, _, _)
NormComps(comps, new, initial_slashes) ==
    IF Len(comps) = 0 THEN new
    ELSE LET comp == comps[1]
             rest == Tail(comps)
         IN IF comp = <<>> \/ comp = <<".">>
            THEN NormComps(rest, new, initial_slashes)
            ELSE IF comp # <<".", ".">>
                    \/ (initial_slashes = 0 /\ Len(new) = 0)
                    \/ (Len(new) > 0 /\ new[Len(new)] = <<".", ".">>)
                 THEN NormComps(rest, Append(new, comp), initial_slashes)
                 ELSE IF Len(new) > 0
                      THEN NormComps(rest, SubSeq(new, 1, Len(new) - 1), initial_slashes)
                      ELSE NormComps(rest, new, initial_slashes)

\* os.path.normpath
normpath(path) ==
    IF Len(path) = 0 THEN <<".">>
    ELSE LET initial_slashes ==
                 IF ~StartsWith(path, "/") THEN 0
                 ELSE IF Len(path) >= 2 /\ path[2] = "/"
                         /\ ~(Len(path) >= 3 /\ path[3] = "/")
                      THEN 2 ELSE 1
             comps  == NormComps(Split(path, "/"), <<>>, initial_slashes)
             joined == JoinWith(comps, "/")
             res    == [i \in 1..initial_slashes |-> "/"] \o joined
         IN IF Len(res) = 0 THEN <<".">> ELSE res

\* os.path.split: <<head, tail>>
split(p) ==
    LET i    == RFind(p, "/")
        head == SubSeq(p, 1, i)
    IN <<IF Len(head) > 0 /\ \E k \in 1..Len(head) : head[k] # "/"
         THEN RStrip(head, "/") ELSE head,
         From(p, i + 1)>>

\* the while loop of posixpath._joinrealpath on a filesystem without
\* symbolic links: the components of rest are joined to path one by one
RECURSIVE JoinRealLoop(_, _)
JoinRealLoop(path, rest) ==
    IF Len(rest) = 0 THEN path
    ELSE LET i     == Find(rest, "/")
             name  == IF i = 0 THEN rest ELSE SubSeq(rest, 1, i - 1)
             rest2 == IF i = 0 THEN <<>> ELSE From(rest, i + 1)
         IN IF name = <<>> \/ name = <<".">>
            THEN JoinRealLoop(path, rest2)
            ELSE IF name = <<".", ".">>
                 THEN IF Len(path) > 0
                      THEN IF split(path)[2] = <<".", ".">>
                           THEN JoinRealLoop(join(split(path)[1], <<".", ".">>,
                                                  <<".", ".">>), rest2)
                           ELSE JoinRealLoop(split(path)[1], rest2)
                      ELSE JoinRealLoop(<<".", ".">>, rest2)
                 ELSE JoinRealLoop(join2(path, name), rest2)

\* posixpath._joinrealpath(path, rest): an absolute rest starts at the root
_joinrealpath(path, rest) ==
    IF StartsWith(rest, "/") THEN JoinRealLoop(<<"/">>, Tail(rest))
    ELSE JoinRealLoop(path, rest)

\* os.path.abspath
abspath(path) ==
    normpath(IF StartsWith(path, "/") THEN path ELSE join2(Cwd, path))

\* os.path.realpath on a filesystem without symbolic links
realpath(p) == abspath(_joinrealpath(<<>>, p))

\* os.path.splitext(p)[1]
splitext_ext(p) ==
    LET sepIndex == RFind(p, "/")
        dotIndex == RFind(p, ".")
    IN IF dotIndex > sepIndex
          /\ \E k \in (sepIndex + 1)..(dotIndex - 1) : p[k] # "."
       THEN From(p, dotIndex)
       ELSE <<>>

\* ---------------------------------------------------------------------
\* The environment: names, documents, filesystem, web
\* ---------------------------------------------------------------------

P_s == <<"/", "s">>
P_a == <<"/", "s", "/", "a", ".", "h", "t", "m">>
P_c == <<"/", "s", "/", "c", ".", "t", "x", "t">>
P_u == <<"/", "s", "/", "u">>
P_b == <<"/", "s", "/", "u", "/", "b", ".", "H", "T", "M">>
P_d == <<"/", "d", ".", "h", "t", "m">>
P_m == <<"/", "s", "/", "m">>
P_zz == <<"z", "z">>

U_a  == <<"h", ":", "a">>
U_at == <<"h", ":", "a", "#", "t">>
U_ak == <<"h", ":", "a", "#", "k">>

\* A parsed document (the BeautifulSoup object), reduced to what the source
\* queries: the href of the first <base> (<<>>: no <base>; <<None>>: a
\* <base> without href), the href attributes of <a>/<link> and the src
\* attributes of <img>/<script> in document order (None: the element has no
\* such attribute), and the id and name attribute values.
NoElems == <<>>

DocEmpty == [base |-> NoElems, href |-> NoElems, src |-> NoElems,
             ids |-> {}, names |-> {}]

\* /s/a.htm
DocA == [base  |-> NoElems,
         href  |-> << U_at, None, U_a >>,
         src   |-> << <<"u", "/", "b", ".", "H", "T", "M", "#", "k">> >>,
         ids   |-> {},
         names |-> {}]

\* /s/u/b.HTM, with <base href="../">
DocB == [base  |-> << <<".", ".", "/">> >>,
         href  |-> << <<"m">>, <<"m", "#", "t">>, U_at >>,
         src   |-> << None >>,
         ids   |-> {},
         names |-> {<<"k">>}]

\* /d.htm, with a link to an anchor of its own
DocD == [base  |-> <<None>>,
         href  |-> << <<"#", "t">> >>,
         src   |-> NoElems,
         ids   |-> {<<"t">>},
         names |-> {}]

\* the document behind h:a
DocWebA == [base |-> NoElems, href |-> NoElems, src |-> NoElems,
            ids |-> {<<"t">>}, names |-> {}]

Dir(entries) == [kind |-> "dir", entries |-> entries, data |-> DocEmpty]

File(doc) == [kind |-> "file", entries |-> <<>>, data |-> doc]

\* the tree on disk: path |-> node; a directory lists its entries in the
\* order the operating system returns them
FsBase ==
    (<<"/">> :> Dir(<< <<"d", ".", "h", "t", "m">>, <<"s">> >>))
    @@ (P_d :> File(DocD))
    @@ (P_s :> Dir(<< <<"a", ".", "h", "t", "m">>, <<"c", ".", "t", "x", "t">>, <<"u">> >>))
    @@ (P_a :> File(DocA))
    @@ (P_c :> File(DocEmpty))
    @@ (P_u :> Dir(<< <<"b", ".", "H", "T", "M">> >>))
    @@ (P_b :> File(DocB))

FsWorlds == {FsBase}

\* the documents served over HTTP
Web == (U_a :> DocWebA)

Urls == DOMAIN Web

\* outcome of a GET: a success status, a non-success status, or an exception
GetOutcomes == {"ok", "notok", "exc"}

ItemUniverse == {P_s, P_b, P_d, U_a, U_at, P_zz}

\* argument lists of at most n items
RECURSIVE ItemLists(_)
ItemLists(n) ==
    IF n = 0 THEN {<<>>}
    ELSE ItemLists(n - 1)
         \cup {Append(l, i) : l \in {x \in ItemLists(n - 1) : Len(x) = n - 1},
                              i \in ItemUniverse}

\* values of the --ignore option (None: option not given)
IgnoreArgs == {None, <<"/", "s", "/", "m", ";", "h", ":", "a", "#">>}

\* ---------------------------------------------------------------------
\* State
\* ---------------------------------------------------------------------

VARIABLES
    items,          \* ITEMS argument of check()
    test_local,     \* LinkChecker.test_local  (--local/--no-local)
    test_external,  \* LinkChecker.test_external (--external/--no-external)
    ignores,        \* LinkChecker.ignores: the compiled patterns, in order
    fs,             \* the filesystem
    head_ok,        \* URLs whose HEAD answers with a success status
    get_res,        \* URL |-> outcome of a GET
    soup_mapping,   \* LinkChecker.soup_mapping: identity |-> parsed document
    seen_links,     \* LinkChecker.seen_links: link |-> BOOLEAN
    link_cnt,       \* LinkChecker.link_cnt
    fail_cnt,       \* LinkChecker.fail_cnt
    fail_map,       \* LinkChecker.fail_map, in insertion order
    pc,             \* position of the run: "check", "items", "dir", "file",
                    \* "dirfile", "done"; "rebase" for a rebase_link call on its own
    idx,            \* test_items: index of the item being handled
    files,          \* test_dir: files html_files_for_dir has still to yield
    fname,          \* test_file: the document being tested
    todo,           \* test_file: links the loop has still to take
    status,         \* exit status of the process, Running until it ends
    summary,        \* the "Summary:" line printed by check(), <<>> until printed
    report,         \* the failures printed by check() after the summary
    tested,         \* the "Testing: ..." lines printed by test_file, in order
    last,           \* the latest test_link call: its number, arguments, outcome, I/O
    probes,         \* link |-> number of _test_link calls on it that did I/O
    resolved,       \* link |-> what the first _test_link call on it returned
    loads,          \* identity |-> number of times it was read or fetched, and parsed
    rebase          \* a rebase_link call made on its own: arguments and result

cfgvars  == <<items, test_local, test_external, ignores, fs, head_ok, get_res,
               rebase>>
chkvars  == <<soup_mapping, seen_links, link_cnt, fail_cnt, fail_map>>
ctlvars  == <<pc, idx, files, fname, todo, status>>
outvars  == <<summary, report, tested, last, probes, resolved, loads>>
vars     == <<cfgvars, chkvars, ctlvars, outvars>>

Running == -1

\* ---------------------------------------------------------------------
\* Filesystem queries
\* ---------------------------------------------------------------------

\* path resolution by the kernel: the node reached from the directory cur
\* by the components comps, <<>> when a component is missing (ENOENT) or is
\* looked up in something that is not a directory (ENOTDIR)
RECURSIVE Namei(_, _, _)
Namei(f, cur, comps) ==
    IF Len(comps) = 0 THEN cur
    ELSE IF comps[1] = <<>> THEN Namei(f, cur, Tail(comps))
    ELSE IF cur \notin DOMAIN f \/ f[cur].kind # "dir" THEN <<>>
    ELSE IF comps[1] = <<".">> THEN Namei(f, cur, Tail(comps))
    ELSE IF comps[1] = <<".", ".">> THEN Namei(f, dirname(cur), Tail(comps))
    ELSE IF join2(cur, comps[1]) \in DOMAIN f
         THEN Namei(f, join2(cur, comps[1]), Tail(comps))
         ELSE <<>>

\* the node a path names (stat): the empty path names nothing, a trailing
\* slash is accepted after a directory only
Lookup(f, p) ==
    The({IF Len(p) = 0 \/ q = <<>> THEN [kind |-> "none"]
         ELSE IF EndsWith(p, "/") /\ f[q].kind # "dir" THEN [kind |-> "none"]
         ELSE f[q]
         : q \in {Namei(f, IF StartsWith(p, "/") THEN <<"/">> ELSE Cwd,
                        Split(p, "/"))}})

exists(f, p) == Lookup(f, p).kind # "none"

isdir(f, p) == Lookup(f, p).kind = "dir"

isfile(f, p) == Lookup(f, p).kind = "file"

\* os.walk(pth), top-down: the files of a directory, then its
\* sub-directories in listing order; each file as os.path.join(root, name)
RECURSIVE WalkFiles(_, _)
WalkFiles(f, root) ==
    LET ents == Lookup(f, root).entries
        RECURSIVE Own(_)
        Own(k) == IF k > Len(ents) THEN <<>>
                  ELSE (IF isfile(f, join2(root, ents[k]))
                        THEN <<join2(root, ents[k])>> ELSE <<>>) \o Own(k + 1)
        RECURSIVE Sub(_)
        Sub(k) == IF k > Len(ents) THEN <<>>
                  ELSE (IF isdir(f, join2(root, ents[k]))
                        THEN WalkFiles(f, join2(root, ents[k])) ELSE <<>>) \o Sub(k + 1)
    IN Own(1) \o Sub(1)

\* html_files_for_dir(pth): the walked files with extension .html or .htm
html_files_for_dir(f, pth) ==
    SelectSeq(WalkFiles(f, pth),
              LAMBDA fpath : Lower(splitext_ext(fpath)) \in
                               {<<".", "h", "t", "m", "l">>, <<".", "h", "t", "m">>})

\* ---------------------------------------------------------------------
\* Module-level functions of checker.py
\* ---------------------------------------------------------------------

\* rebase_link that leaves the <base href> out of the join
rebase_link_nobase(lnk, baseurl, referrer_path) ==
    IF urlsplit_scheme(lnk) # <<>>
    THEN urljoin(baseurl, lnk)
    ELSE realpath(join2(dirname(referrer_path), lnk))

\* rebase_link(lnk, baseurl, referrer_path)
rebase_link(lnk, baseurl, referrer_path) ==
    IF urlsplit_scheme(lnk) # <<>>
    THEN urljoin(baseurl, lnk)
    ELSE realpath(join(dirname(referrer_path), baseurl, lnk))

\* links_in_soup(soup, referrer): the set of rebased links
links_in_soup(soup, referrer) ==
    LET baseurl == IF Len(soup.base) > 0 /\ soup.base[1] # None
                   THEN soup.base[1] ELSE <<>>
        ret == SelectSeq(soup.href, LAMBDA a : a # None)
               \o SelectSeq(soup.src, LAMBDA a : a # None)
    IN {rebase_link(ret[i], baseurl, referrer) : i \in 1..Len(ret)}

\* anchor_in_soup(soup, anchor_name)
anchor_in_soup(soup, anchor_name) ==
    anchor_name \in soup.ids \/ anchor_name \in soup.names

\* test_http_head(link): TRUE iff the HEAD answers ok; every exception is
\* caught and gives FALSE
test_http_head(hd, link) == link \in hd

\* rex.match(link) for a pattern of literal characters and ".": the pattern
\* has to match at the start of the link
rex_match(rex, link) ==
    /\ Len(rex) <= Len(link)
    /\ \A i \in 1..Len(rex) : rex[i] = "." \/ rex[i] = link[i]

\* LinkChecker.__init__: the patterns of the --ignore option
compile_ignores(ignore) ==
    IF ignore # None /\ Len(ignore) > 0 THEN Split(ignore, ";") ELSE <<>>

\* ---------------------------------------------------------------------
\* LinkChecker
\* ---------------------------------------------------------------------

NoIO == <<>>

\* Result of one of the _test_* methods: the value returned (or raised: an
\* exception left the method), the caches afterwards, the I/O performed.
Res(ret, raised, seen, soups, io) ==
    [ret |-> ret, raised |-> raised, seen |-> seen, soups |-> soups, io |-> io]

\* _test_http_fragment that parses the body of an answer that is not ok
_test_http_fragment_anybody(link, fragment, seen, soups, gr) ==
    IF link \in DOMAIN soups
    THEN Res(anchor_in_soup(soups[link], fragment), FALSE, seen, soups, NoIO)
    ELSE LET io == << <<"GET", link>> >>
         IN IF link \notin DOMAIN gr \/ gr[link] = "exc"
            THEN Res(FALSE, FALSE, seen, soups, io)
            ELSE Res(anchor_in_soup(Web[link], fragment), FALSE, seen,
                     (link :> Web[link]) @@ soups, io)

\* LinkChecker._test_http_fragment(link, fragment)
_test_http_fragment(link, fragment, seen, soups, gr) ==
    IF link \in DOMAIN soups
    THEN Res(anchor_in_soup(soups[link], fragment), FALSE, seen, soups, NoIO)
    ELSE LET io == << <<"GET", link>> >>
         IN IF link \notin DOMAIN gr \/ gr[link] # "ok"
            THEN Res(FALSE, FALSE, seen, soups, io)
            ELSE Res(anchor_in_soup(Web[link], fragment), FALSE, seen,
                     (link :> Web[link]) @@ soups, io)

\* LinkChecker._test_file_fragment(fname, fragment); f is the disk as
\* os.path.exists finds it (line 230), fo the disk as open finds it (line 233)
_test_file_fragment(fn, fragment, seen, soups, f, fo) ==
    IF fn \in DOMAIN soups
    THEN Res(anchor_in_soup(soups[fn], fragment), FALSE, seen, soups, NoIO)
    ELSE IF ~exists(f, fn)
         THEN Res(FALSE, FALSE, seen, soups, << <<"stat", fn>> >>)
         ELSE LET io == << <<"stat", fn>>, <<"read", fn>> >>
              IN IF ~isfile(fo, fn)
                 THEN Res(FALSE, TRUE, seen, soups, io)   \* open() raises
                 ELSE Res(anchor_in_soup(Lookup(fo, fn).data, fragment), FALSE, seen,
                          (fn :> Lookup(fo, fn).data) @@ soups, io)

\* the probe that takes a local link without fragment as found, without
\* asking the filesystem
Probe_nostat(link, external, seen, soups, f, fo, hd, gr) ==
    LET base_link == urldefrag(link)[1]
        fragment  == urldefrag(link)[2]
    IN IF external # <<>>
       THEN IF fragment # <<>>
            THEN _test_http_fragment(base_link, fragment, seen, soups, gr)
            ELSE Res(test_http_head(hd, link), FALSE, seen, soups, << <<"HEAD", link>> >>)
       ELSE IF fragment # <<>>
            THEN _test_file_fragment(base_link, fragment, seen, soups, f, fo)
            ELSE Res(TRUE, FALSE, seen, soups, NoIO)

\* the probe _test_link chooses for a link that the cache does not settle
Probe(link, external, seen, soups, f, fo, hd, gr) ==
    LET base_link == urldefrag(link)[1]
        fragment  == urldefrag(link)[2]
    IN IF external # <<>>
       THEN IF fragment # <<>>
            THEN _test_http_fragment(base_link, fragment, seen, soups, gr)
            ELSE Res(test_http_head(hd, link), FALSE, seen, soups, << <<"HEAD", link>> >>)
       ELSE IF fragment # <<>>
            THEN _test_file_fragment(base_link, fragment, seen, soups, f, fo)
            ELSE Res(exists(f, link), FALSE, seen, soups, << <<"stat", link>> >>)

\* _test_link without the dead-base return of lines 135-136
_test_link_noshort(link, external, seen, soups, f, fo, hd, gr) ==
    IF link \in DOMAIN seen
    THEN Res(seen[link], FALSE, seen, soups, NoIO)
    ELSE LET r == Probe(link, external, seen, soups, f, fo, hd, gr)
         IN IF r.raised THEN r
            ELSE Res(r.ret, FALSE, (link :> r.ret) @@ seen, r.soups, r.io)

\* _test_link without the cache lookup of lines 132-133
_test_link_nocache(link, external, seen, soups, f, fo, hd, gr) ==
    LET base_link == urldefrag(link)[1]
    IN IF base_link # link /\ base_link \in DOMAIN seen /\ ~seen[base_link]
       THEN Res(FALSE, FALSE, seen, soups, NoIO)
       ELSE LET r == Probe(link, external, seen, soups, f, fo, hd, gr)
            IN IF r.raised THEN r
               ELSE Res(r.ret, FALSE, (link :> r.ret) @@ seen, r.soups, r.io)

\* _test_link whose dead-base return of lines 135-136 is taken for local
\* links only
_test_link_localshort(link, external, seen, soups, f, fo, hd, gr) ==
    LET base_link == urldefrag(link)[1]
    IN IF link \in DOMAIN seen
       THEN Res(seen[link], FALSE, seen, soups, NoIO)
       ELSE IF external = <<>> /\ base_link \in DOMAIN seen /\ ~seen[base_link]
            THEN Res(FALSE, FALSE, seen, soups, NoIO)
            ELSE LET r == Probe(link, external, seen, soups, f, fo, hd, gr)
                 IN IF r.raised THEN r
                    ELSE Res(r.ret, FALSE, (link :> r.ret) @@ seen, r.soups, r.io)

\* LinkChecker._test_link(link, external)
_test_link(link, external, seen, soups, f, fo, hd, gr) ==
    LET base_link == urldefrag(link)[1]
    IN IF link \in DOMAIN seen
       THEN Res(seen[link], FALSE, seen, soups, NoIO)
       ELSE IF base_link \in DOMAIN seen /\ ~seen[base_link]
            THEN Res(FALSE, FALSE, seen, soups, NoIO)
            ELSE LET r == Probe(link, external, seen, soups, f, fo, hd, gr)
                 IN IF r.raised THEN r
                    ELSE Res(r.ret, FALSE, (link :> r.ret) @@ seen, r.soups, r.io)

\* the filters of test_link without the ignore patterns
Filtered_noignore(link, loc, ext, ign) ==
    LET external == urlsplit_scheme(link)
    IN \/ (external # <<>> /\ ~ext)
       \/ (external = <<>> /\ ~loc)

\* the filters at the head of LinkChecker.test_link
Filtered(link, loc, ext, ign) ==
    LET external == urlsplit_scheme(link)
    IN \/ (external # <<>> /\ ~ext)
       \/ (external = <<>> /\ ~loc)
       \/ \E i \in 1..Len(ign) : rex_match(ign[i], link)

\* fail_map that puts a new document before the earlier ones
FailAppend_front(fm, ctx, link) ==
    IF \E i \in 1..Len(fm) : fm[i].ctx = ctx
    THEN [i \in 1..Len(fm) |->
            IF fm[i].ctx = ctx
            THEN [ctx |-> ctx, fails |-> Append(fm[i].fails, link)]
            ELSE fm[i]]
    ELSE <<[ctx |-> ctx, fails |-> <<link>>]>> \o fm

\* fail_map that lists a target once for each document
FailAppend_once(fm, ctx, link) ==
    IF \E i \in 1..Len(fm) : fm[i].ctx = ctx
    THEN [i \in 1..Len(fm) |->
            IF fm[i].ctx = ctx /\ \A j \in 1..Len(fm[i].fails) : fm[i].fails[j] # link
            THEN [ctx |-> ctx, fails |-> Append(fm[i].fails, link)]
            ELSE fm[i]]
    ELSE Append(fm, [ctx |-> ctx, fails |-> <<link>>])

\* fail_map.setdefault(ctx, []).append(link)
FailAppend(fm, ctx, link) ==
    IF \E i \in 1..Len(fm) : fm[i].ctx = ctx
    THEN [i \in 1..Len(fm) |->
            IF fm[i].ctx = ctx
            THEN [ctx |-> ctx, fails |-> Append(fm[i].fails, link)]
            ELSE fm[i]]
    ELSE Append(fm, [ctx |-> ctx, fails |-> <<link>>])

\* LinkChecker.get_stats()
get_stats(lc, fc, seen) == <<lc, fc, Cardinality(DOMAIN seen)>>

\* ---------------------------------------------------------------------
\* Initial state: the process has been started with its arguments
\* ---------------------------------------------------------------------

EmptyMap == [x \in {} |-> FALSE]

\* no rebase_link call outside a scan
NoRebase == [lnk |-> <<>>, baseurl |-> <<>>, referrer_path |-> <<>>, out |-> None]

NoCall == [n |-> 0, link |-> <<>>, ctx |-> <<>>, filtered |-> FALSE,
           ret |-> FALSE, raised |-> FALSE, io |-> NoIO]

Init ==
    /\ items \in ItemLists(MaxItems)
    /\ test_local \in BOOLEAN
    /\ test_external \in BOOLEAN
    /\ ignores \in {compile_ignores(a) : a \in IgnoreArgs}
    /\ fs \in FsWorlds
    /\ head_ok \in SUBSET Urls
    /\ get_res \in [Urls -> GetOutcomes]
    /\ soup_mapping = EmptyMap
    /\ seen_links = EmptyMap
    /\ link_cnt = 0
    /\ fail_cnt = 0
    /\ fail_map = <<>>
    /\ pc = "check"
    /\ idx = 0
    /\ files = <<>>
    /\ fname = <<>>
    /\ todo = {}
    /\ status = Running
    /\ summary = <<>>
    /\ report = <<>>
    /\ tested = <<>>
    /\ last = NoCall
    /\ probes = EmptyMap
    /\ resolved = EmptyMap
    /\ loads = EmptyMap
    /\ rebase = NoRebase

\* ---------------------------------------------------------------------
\* LinkChecker.test_link(link, ctx), as one step
\* ---------------------------------------------------------------------

\* ld with one more load of identity x
Loaded(ld, x) ==
    IF x \in DOMAIN ld THEN [ld EXCEPT ![x] = @ + 1] ELSE (x :> 1) @@ ld

\* ld after the I/O io of a _test_link call that left the documents soups:
\* a GET or a read whose document was parsed is a load
RECURSIVE LoadedBy(_, _, _)
LoadedBy(ld, io, soups) ==
    IF Len(io) = 0 THEN ld
    ELSE LoadedBy(IF io[1][1] \in {"GET", "read"} /\ io[1][2] \in DOMAIN soups
                  THEN Loaded(ld, io[1][2]) ELSE ld,
                  Tail(io), soups)

\* the _test_link call test_link makes in the current state, fo being the
\* disk at the time of its open()
Resolve(link, fo) ==
    _test_link(link, urlsplit_scheme(link), seen_links, soup_mapping,
               fs, fo, head_ok, get_res)

\* test_link that counts a link only when it is not in seen_links yet
test_link_with_uncached(link, ctx, r) ==
    IF Filtered(link, test_local, test_external, ignores)
    THEN /\ UNCHANGED <<chkvars, probes, resolved, loads>>
         /\ last' = [n |-> last.n + 1, link |-> link, ctx |-> ctx,
                     filtered |-> TRUE, ret |-> TRUE, raised |-> FALSE,
                     io |-> NoIO]
    ELSE /\ link_cnt' = IF link \in DOMAIN seen_links THEN link_cnt ELSE link_cnt + 1
         /\ seen_links' = r.seen
         /\ soup_mapping' = r.soups
         /\ IF ~r.raised /\ ~r.ret
            THEN /\ fail_cnt' = fail_cnt + 1
                 /\ fail_map' = FailAppend(fail_map, ctx, link)
            ELSE UNCHANGED <<fail_cnt, fail_map>>
         /\ last' = [n |-> last.n + 1, link |-> link, ctx |-> ctx,
                     filtered |-> FALSE, ret |-> r.ret, raised |-> r.raised,
                     io |-> r.io]
         /\ probes' = IF r.io = NoIO THEN probes
                      ELSE IF link \in DOMAIN probes
                           THEN [probes EXCEPT ![link] = @ + 1]
                           ELSE (link :> 1) @@ probes
         /\ loads' = LoadedBy(loads, r.io, r.soups)
         /\ resolved' = IF r.raised \/ link \in DOMAIN resolved THEN resolved
                        ELSE (link :> r.ret) @@ resolved

\* test_link(link, ctx) with r the outcome of its _test_link call; an
\* exception raised there leaves test_link after link_cnt was incremented
test_link_with(link, ctx, r) ==
    IF Filtered(link, test_local, test_external, ignores)
    THEN /\ UNCHANGED <<chkvars, probes, resolved, loads>>
         /\ last' = [n |-> last.n + 1, link |-> link, ctx |-> ctx,
                     filtered |-> TRUE, ret |-> TRUE, raised |-> FALSE,
                     io |-> NoIO]
    ELSE /\ link_cnt' = link_cnt + 1
         /\ seen_links' = r.seen
         /\ soup_mapping' = r.soups
         /\ IF ~r.raised /\ ~r.ret
            THEN /\ fail_cnt' = fail_cnt + 1
                 /\ fail_map' = FailAppend(fail_map, ctx, link)
            ELSE UNCHANGED <<fail_cnt, fail_map>>
         /\ last' = [n |-> last.n + 1, link |-> link, ctx |-> ctx,
                     filtered |-> FALSE, ret |-> r.ret, raised |-> r.raised,
                     io |-> r.io]
         /\ resolved' = IF r.raised \/ link \in DOMAIN resolved THEN resolved
                        ELSE (link :> r.ret) @@ resolved
         /\ probes' = IF r.io = NoIO THEN probes
                      ELSE IF link \in DOMAIN probes
                           THEN [probes EXCEPT ![link] = @ + 1]
                           ELSE (link :> 1) @@ probes
         /\ loads' = LoadedBy(loads, r.io, r.soups)

\* LinkChecker.test_link(link, ctx); raised' tells whether an exception left it
test_link_at(link, ctx, raised, fo) ==
    \E r \in {Resolve(link, fo)} :
        /\ test_link_with(link, ctx, r)
        /\ raised = (~Filtered(link, test_local, test_external, ignores) /\ r.raised)

\* LinkChecker.test_link(link, ctx) on a disk that no one changes meanwhile
test_link(link, ctx, raised) == test_link_at(link, ctx, raised, fs)

\* ---------------------------------------------------------------------
\* check() and LinkChecker.test_items / test_dir / test_file
\* ---------------------------------------------------------------------

\* check(): both kinds of link switched off
CheckConflict ==
    /\ pc = "check"
    /\ ~test_local /\ ~test_external
    /\ pc' = "done"
    /\ status' = 2
    /\ UNCHANGED <<cfgvars, chkvars, idx, files, fname, todo, outvars>>

\* check(): the checker is built and test_items entered
CheckStart ==
    /\ pc = "check"
    /\ test_local \/ test_external
    /\ pc' = "items"
    /\ idx' = 1
    /\ UNCHANGED <<cfgvars, chkvars, files, fname, todo, status, outvars>>

\* test_file(fn) up to the loop that reads and parses the document whether
\* or not soup_mapping holds it
OpenFile_reread(fn) ==
    LET soup == Lookup(fs, fn).data
    IN /\ tested' = Append(tested, fn)
       /\ soup_mapping' = (fn :> soup) @@ soup_mapping
       /\ loads' = Loaded(loads, fn)
       /\ fname' = fn
       /\ todo' = links_in_soup(soup, fn)

\* test_file(fn) up to the loop: the document is taken from soup_mapping or
\* read and parsed, and its links are extracted
OpenFile(fn) ==
    LET soup == IF fn \in DOMAIN soup_mapping THEN soup_mapping[fn]
                ELSE Lookup(fs, fn).data
    IN /\ tested' = Append(tested, fn)
       /\ soup_mapping' = IF fn \in DOMAIN soup_mapping THEN soup_mapping
                          ELSE (fn :> soup) @@ soup_mapping
       /\ loads' = IF fn \in DOMAIN soup_mapping THEN loads ELSE Loaded(loads, fn)
       /\ fname' = fn
       /\ todo' = links_in_soup(soup, fn)

\* test_items: the item is a directory
ItemDir ==
    /\ pc = "items" /\ idx <= Len(items)
    /\ isdir(fs, items[idx])
    /\ files' = html_files_for_dir(fs, items[idx])
    /\ pc' = "dir"
    /\ UNCHANGED <<cfgvars, chkvars, idx, fname, todo, status, outvars>>

\* test_dir: the next file of the walk is handed to test_file
DirNext ==
    /\ pc = "dir" /\ files # <<>>
    /\ OpenFile(Head(files))
    /\ files' = Tail(files)
    /\ pc' = "dirfile"
    /\ UNCHANGED <<cfgvars, seen_links, link_cnt, fail_cnt, fail_map, idx, status,
                   summary, report, last, probes, resolved>>

\* test_dir: the walk is exhausted
DirDone ==
    /\ pc = "dir" /\ files = <<>>
    /\ pc' = "items"
    /\ idx' = idx + 1
    /\ UNCHANGED <<cfgvars, chkvars, files, fname, todo, status, outvars>>

\* test_items: the item is a file
ItemFile ==
    /\ pc = "items" /\ idx <= Len(items)
    /\ ~isdir(fs, items[idx]) /\ isfile(fs, items[idx])
    /\ OpenFile(items[idx])
    /\ pc' = "file"
    /\ UNCHANGED <<cfgvars, seen_links, link_cnt, fail_cnt, fail_map, idx, files,
                   status, summary, report, last, probes, resolved>>

\* test_file: one turn of the loop over the extracted links; an exception
\* that leaves test_link ends the process with a traceback (status 1)
FileLink ==
    /\ pc \in {"file", "dirfile"} /\ todo # {}
    /\ \E lnk \in todo, raised \in BOOLEAN :
          /\ test_link(lnk, fname, raised)
          /\ IF raised
             THEN pc' = "done" /\ status' = 1 /\ UNCHANGED todo
             ELSE todo' = todo \ {lnk} /\ UNCHANGED <<pc, status>>
    /\ UNCHANGED <<cfgvars, idx, files, fname, summary, report, tested>>

\* test_file returns
FileEnd ==
    /\ pc \in {"file", "dirfile"} /\ todo = {}
    /\ IF pc = "file"
       THEN pc' = "items" /\ idx' = idx + 1
       ELSE pc' = "dir" /\ UNCHANGED idx
    /\ UNCHANGED <<cfgvars, chkvars, files, fname, todo, status, outvars>>

\* test_items that hands the item itself to test_link as the source
ItemUrl_self ==
    /\ pc = "items" /\ idx <= Len(items)
    /\ ~isdir(fs, items[idx]) /\ ~isfile(fs, items[idx])
    /\ urlsplit_scheme(items[idx]) # <<>>
    /\ \E item \in {items[idx]}, raised \in BOOLEAN :
          /\ test_link(item, item, raised)
          /\ IF raised
             THEN pc' = "done" /\ status' = 1 /\ UNCHANGED idx
             ELSE idx' = idx + 1 /\ UNCHANGED <<pc, status>>
    /\ UNCHANGED <<cfgvars, files, fname, todo, summary, report, tested>>

\* test_items: the item is a bare URL
ItemUrl ==
    /\ pc = "items" /\ idx <= Len(items)
    /\ ~isdir(fs, items[idx]) /\ ~isfile(fs, items[idx])
    /\ urlsplit_scheme(items[idx]) # <<>>
    /\ \E item \in {items[idx]}, raised \in BOOLEAN :
          /\ test_link(item, urldefrag(item)[1], raised)
          /\ IF raised
             THEN pc' = "done" /\ status' = 1 /\ UNCHANGED idx
             ELSE idx' = idx + 1 /\ UNCHANGED <<pc, status>>
    /\ UNCHANGED <<cfgvars, files, fname, todo, summary, report, tested>>

\* test_items that reports the item and goes on with the next one
ItemUsage_skip ==
    /\ pc = "items" /\ idx <= Len(items)
    /\ ~isdir(fs, items[idx]) /\ ~isfile(fs, items[idx])
    /\ urlsplit_scheme(items[idx]) = <<>>
    /\ idx' = idx + 1
    /\ UNCHANGED <<cfgvars, chkvars, pc, status, files, fname, todo, outvars>>

\* test_items: the item is neither directory, file nor URL: sys.exit(2)
ItemUsage ==
    /\ pc = "items" /\ idx <= Len(items)
    /\ ~isdir(fs, items[idx]) /\ ~isfile(fs, items[idx])
    /\ urlsplit_scheme(items[idx]) = <<>>
    /\ pc' = "done"
    /\ status' = 2
    /\ UNCHANGED <<cfgvars, chkvars, idx, files, fname, todo, outvars>>

\* check() after test_items returned: summary, failures, exit status
Finish ==
    /\ pc = "items" /\ idx > Len(items)
    /\ summary' = get_stats(link_cnt, fail_cnt, seen_links)
    /\ IF fail_cnt # 0
       THEN report' = fail_map /\ status' = 1
       ELSE report' = report /\ status' = 0
    /\ pc' = "done"
    /\ UNCHANGED <<cfgvars, chkvars, idx, files, fname, todo, tested, last, probes,
                   resolved, loads>>

Next ==
    \/ CheckConflict
    \/ CheckStart
    \/ ItemDir
    \/ DirNext
    \/ DirDone
    \/ ItemFile
    \/ FileLink
    \/ FileEnd
    \/ ItemUrl
    \/ ItemUsage
    \/ Finish

Spec == Init /\ [][Next]_vars

\* ---------------------------------------------------------------------
\* A scan during which the filesystem changes
\* ---------------------------------------------------------------------

\* the tree on disk with the file /s/m, which FsBase lacks
FsWithM ==
    (P_m :> File(DocEmpty))
    @@ (P_s :> Dir(<< <<"a", ".", "h", "t", "m">>, <<"c", ".", "t", "x", "t">>,
                      <<"m">>, <<"u">> >>))
    @@ FsBase

\* the directory /s as an argument relative to the working directory
Rel_s == <<"s">>

EnvItemUniverse == {Rel_s, P_b, U_at, U_ak, P_zz}

\* argument lists of at most n items taken from u
RECURSIVE ItemListsOf(_, _)
ItemListsOf(u, n) ==
    IF n = 0 THEN {<<>>}
    ELSE ItemListsOf(u, n - 1)
         \cup {Append(l, i) : l \in {x \in ItemListsOf(u, n - 1) : Len(x) = n - 1},
                              i \in u}

\* check() called without --ignore on items of EnvItemUniverse, every GET
\* answering with a status
InitEnv ==
    /\ items \in ItemListsOf(EnvItemUniverse, MaxItems)
    /\ test_local \in BOOLEAN
    /\ test_external \in BOOLEAN
    /\ ignores = compile_ignores(None)
    /\ fs = FsBase
    /\ head_ok \in SUBSET Urls
    /\ get_res \in [Urls -> {"ok", "notok"}]
    /\ soup_mapping = EmptyMap
    /\ seen_links = EmptyMap
    /\ link_cnt = 0
    /\ fail_cnt = 0
    /\ fail_map = <<>>
    /\ pc = "check"
    /\ idx = 0
    /\ files = <<>>
    /\ fname = <<>>
    /\ todo = {}
    /\ status = Running
    /\ summary = <<>>
    /\ report = <<>>
    /\ tested = <<>>
    /\ last = NoCall
    /\ probes = EmptyMap
    /\ resolved = EmptyMap
    /\ loads = EmptyMap
    /\ rebase = NoRebase

\* another process creates or removes /s/m while test_items runs, between
\* two turns of a loop (os.path.exists and open ask the disk anew at each
\* call; /s/m has no .htm/.html extension, so the walk of test_dir yields
\* the same files before and after)
FsChange ==
    /\ pc \in {"items", "dir", "file", "dirfile"}
    /\ fs' = IF fs = FsBase THEN FsWithM ELSE FsBase
    /\ UNCHANGED <<items, test_local, test_external, ignores, head_ok, get_res,
                   rebase, chkvars, ctlvars, outvars>>

\* the _test_link call on lnk gets as far as open(): lnk is a local link
\* with a fragment that neither seen_links nor soup_mapping settles and
\* whose base os.path.exists finds
ReachesOpen(lnk) ==
    /\ ~Filtered(lnk, test_local, test_external, ignores)
    /\ urlsplit_scheme(lnk) = <<>>
    /\ urldefrag(lnk)[2] # <<>>
    /\ lnk \notin DOMAIN seen_links
    /\ ~(urldefrag(lnk)[1] \in DOMAIN seen_links /\ ~seen_links[urldefrag(lnk)[1]])
    /\ urldefrag(lnk)[1] \notin DOMAIN soup_mapping
    /\ exists(fs, urldefrag(lnk)[1])

\* test_file: one turn of the loop during which another process creates or
\* removes /s/m after os.path.exists (line 230) and before open (line 233)
\* of _test_file_fragment; open() of a file that is gone raises
FileLinkRace ==
    /\ pc \in {"file", "dirfile"} /\ todo # {}
    /\ \E lnk \in todo, raised \in BOOLEAN,
          fo \in {IF fs = FsBase THEN FsWithM ELSE FsBase} :
          /\ ReachesOpen(lnk)
          /\ test_link_at(lnk, fname, raised, fo)
          /\ fs' = fo
          /\ IF raised
             THEN pc' = "done" /\ status' = 1 /\ UNCHANGED todo
             ELSE todo' = todo \ {lnk} /\ UNCHANGED <<pc, status>>
    /\ UNCHANGED <<items, test_local, test_external, ignores, head_ok, get_res,
                   rebase, idx, files, fname, summary, report, tested>>

NextEnv == Next \/ FsChange \/ FileLinkRace

SpecEnv == InitEnv /\ [][NextEnv]_vars

\* ---------------------------------------------------------------------
\* rebase_link called on its own, as test_rebase_link does
\* ---------------------------------------------------------------------

\* links: plain, with a fragment, below a directory, fragment only, with
\* "." and "..", with a fragment that holds a "/", and with a scheme
RebaseLinks ==
    { <<"x">>, <<"x", "#", "t">>, <<"k", "/", "x">>, <<"k", "/", "x", "#", "t">>, <<"#", "t">>,
      <<".", ".", "/", "x">>, <<".", "/", "x">>, <<"x", "#", "t", "/">>, U_a, U_at }

\* values of <base href>: none, "./", "../", "../../" and a directory
RebaseBases == { <<>>, <<".", "/">>, <<".", ".", "/">>, <<".", ".", "/", ".", ".", "/">>, <<"u", "/">> }

\* referrers: a document of directory s, of s/u and of s/u/d, the
\* directory s/u/ itself, and a document of s written with a leading "./"
R_par == <<"s", "/", "b", ".", "h", "t", "m">>
R_sub == <<"s", "/", "u", "/", "b", ".", "h", "t", "m">>
R_two == <<"s", "/", "u", "/", "d", "/", "b", ".", "h", "t", "m">>
R_dir == <<"s", "/", "u", "/">>
R_dot == <<".", "/", "s", "/", "b", ".", "h", "t", "m">>

RebaseReferrers == {R_par, R_sub, R_two, R_dir, R_dot}

InitRebase ==
    /\ rebase \in [lnk : RebaseLinks, baseurl : RebaseBases,
                    referrer_path : RebaseReferrers, out : {None}]
    /\ items = <<>>
    /\ test_local = TRUE
    /\ test_external = TRUE
    /\ ignores = compile_ignores(None)
    /\ fs = FsBase
    /\ head_ok = {}
    /\ get_res = [u \in Urls |-> "ok"]
    /\ soup_mapping = EmptyMap
    /\ seen_links = EmptyMap
    /\ link_cnt = 0
    /\ fail_cnt = 0
    /\ fail_map = <<>>
    /\ pc = "rebase"
    /\ idx = 0
    /\ files = <<>>
    /\ fname = <<>>
    /\ todo = {}
    /\ status = Running
    /\ summary = <<>>
    /\ report = <<>>
    /\ tested = <<>>
    /\ last = NoCall
    /\ probes = EmptyMap
    /\ resolved = EmptyMap
    /\ loads = EmptyMap

\* the call rebase_link(lnk, baseurl, referrer_path) returns
RebaseCall ==
    /\ pc = "rebase"
    /\ rebase.out = None
    /\ rebase' = [rebase EXCEPT !.out = rebase_link(rebase.lnk, rebase.baseurl,
                                                    rebase.referrer_path)]
    /\ UNCHANGED <<items, test_local, test_external, ignores, fs, head_ok, get_res,
                   chkvars, ctlvars, outvars>>

NextRebase == RebaseCall

SpecRebase == InitRebase /\ [][NextRebase]_vars

\* ---------------------------------------------------------------------
\* Vocabulary of the properties
\* ---------------------------------------------------------------------

\* the step is a call of test_link; last' describes it
IsCall == last'.n = last.n + 1

\* the step is a call of test_link that reached _test_link
IsResolve == IsCall /\ ~last'.filtered

BaseOf(l) == urldefrag(l)[1]

FragOf(l) == urldefrag(l)[2]

IsRemote(l) == urlsplit_scheme(l) # <<>>

\* l carries a fragment and its fragmentless base is cached as False
DeadBase(l, seen) ==
    /\ Find(l, "#") > 0
    /\ BaseOf(l) \in DOMAIN seen
    /\ ~seen[BaseOf(l)]

\* the target is one test_link is configured not to check
ShouldSkip(l) ==
    \/ (~IsRemote(l) /\ ~test_local)
    \/ (IsRemote(l) /\ ~test_external)
    \/ \E i \in 1..Len(ignores) : rex_match(ignores[i], l)

\* the item is neither a directory, nor a file, nor a string with a scheme
IsBadItem(item) == ~isdir(fs, item) /\ ~isfile(fs, item) /\ ~IsRemote(item)

\* the run was ended by the usage error of test_items
UsageExit == pc = "done" /\ status = 2 /\ idx >= 1

\* the documents test_items hands to test_file for the first k items
RECURSIVE DocsOfItems(_)
DocsOfItems(k) ==
    IF k = 0 THEN <<>>
    ELSE DocsOfItems(k - 1) \o
         (IF isdir(fs, items[k]) THEN html_files_for_dir(fs, items[k])
          ELSE IF isfile(fs, items[k]) THEN <<items[k]>>
          ELSE <<>>)

\* ---------------------------------------------------------------------
\* C1
\* ---------------------------------------------------------------------

\* C1 (as stated): whenever _test_link is called on "X#frag" while seen_links
\* holds False for X, it returns False and performs no HEAD, GET, stat or read.
C1_ShortCircuitAlwaysFalse ==
    [][(IsResolve /\ DeadBase(last'.link, seen_links))
         => (~last'.raised /\ last'.ret = FALSE /\ last'.io = NoIO)]_vars

\* C1 (amended): whenever _test_link is called on "X#frag" while seen_links
\* holds False for X, it performs no HEAD, GET, stat or read, and it returns
\* False unless "X#frag" is itself in seen_links, in which case it returns
\* the value cached for "X#frag".
C1_ShortCircuit ==
    [][(IsResolve /\ DeadBase(last'.link, seen_links))
         => /\ ~last'.raised
            /\ last'.io = NoIO
            /\ last'.ret = (IF last'.link \in DOMAIN seen_links
                            THEN seen_links[last'.link] ELSE FALSE)]_vars

\* a fragmented link was answered False from its dead base, without being
\* cached itself: once for a remote and once for a local target
C1_Witness ==
    /\ last.n > 0 /\ ~last.filtered
    /\ DeadBase(last.link, seen_links)
    /\ last.link \notin DOMAIN seen_links
    /\ ~last.ret /\ last.io = NoIO
    /\ \E l \in DOMAIN resolved :
          /\ DeadBase(l, seen_links) /\ l \notin DOMAIN seen_links
          /\ IsRemote(l) # IsRemote(last.link)

\* ---------------------------------------------------------------------
\* C2
\* ---------------------------------------------------------------------

\* C2: for every link, at most one _test_link call on it performs a probe
\* (HEAD, GET, stat or read), and every later _test_link call on the same
\* link returns what the first call on it returned.
C2_CacheIdempotence ==
    [][/\ \A l \in DOMAIN probes' : probes'[l] <= 1
       /\ (IsResolve /\ last'.link \in DOMAIN resolved)
            => (~last'.raised /\ last'.ret = resolved[last'.link])]_vars

\* a link that was probed by an earlier call is asked again and answered
\* without I/O
C2_Witness ==
    /\ last.n > 0 /\ ~last.filtered
    /\ last.io = NoIO
    /\ last.link \in DOMAIN probes
    /\ link_cnt > Cardinality(DOMAIN resolved)

\* ---------------------------------------------------------------------
\* C3
\* ---------------------------------------------------------------------

\* C3: no error met while verifying a link leaves test_link as an exception:
\* every such error becomes a False result and the scan goes on.
C3_NoErrorAborts == ~last.raised

\* ---------------------------------------------------------------------
\* C4
\* ---------------------------------------------------------------------

\* C4: a test_link call on a target that is local with local checking off,
\* remote with external checking off, or matched by an ignore pattern does no
\* I/O and leaves link_cnt, fail_cnt, fail_map, seen_links and soup_mapping
\* unchanged.
C4_FilteredNoEffect ==
    [][(IsCall /\ ShouldSkip(last'.link))
         => /\ last'.io = NoIO
            /\ UNCHANGED <<link_cnt, fail_cnt, fail_map, seen_links, soup_mapping,
                           probes>>]_vars

\* a target that does not exist was skipped: once because of an ignore
\* pattern while its kind is checked, and the checker has counted other links
C4_Witness ==
    /\ last.n > 0 /\ last.filtered
    /\ ~IsRemote(last.link) /\ test_local
    /\ ~exists(fs, BaseOf(last.link))
    /\ link_cnt > 0

\* ---------------------------------------------------------------------
\* C5
\* ---------------------------------------------------------------------

\* C5: a test_link call on a target that is not filtered adds exactly 1 to
\* link_cnt, cached or not, and adds exactly 1 to fail_cnt if the target
\* resolved to False and nothing otherwise.
C5_CountEveryMention ==
    [][(IsCall /\ ~ShouldSkip(last'.link))
         => /\ link_cnt' = link_cnt + 1
            /\ fail_cnt' = fail_cnt + (IF ~last'.raised /\ ~last'.ret THEN 1 ELSE 0)]_vars

\* a cached failing target was counted again, and a succeeding one counted too
C5_Witness ==
    /\ last.n > 0 /\ ~last.filtered
    /\ last.link \in DOMAIN probes /\ last.io = NoIO /\ ~last.ret
    /\ fail_cnt >= 2 /\ link_cnt > fail_cnt

\* ---------------------------------------------------------------------
\* C6
\* ---------------------------------------------------------------------

\* C6: the unique statistic printed at the end of the scan is the number of
\* distinct targets that were resolved during the scan.
C6_UniqueCountsResolved ==
    (pc = "done" /\ summary # <<>>) => summary[3] = Cardinality(DOMAIN resolved)

\* ---------------------------------------------------------------------
\* C7
\* ---------------------------------------------------------------------

\* fm2 is fm with link added at the end of the list of ctx, the list of a
\* new ctx being added after the existing ones
AppendedTo(fm, fm2, ctx, link) ==
    IF \E i \in 1..Len(fm) : fm[i].ctx = ctx
    THEN /\ Len(fm2) = Len(fm)
         /\ \A j \in 1..Len(fm) :
               /\ fm2[j].ctx = fm[j].ctx
               /\ fm2[j].fails = IF fm[j].ctx = ctx THEN fm[j].fails \o <<link>>
                                 ELSE fm[j].fails
    ELSE /\ Len(fm2) = Len(fm) + 1
         /\ SubSeq(fm2, 1, Len(fm)) = fm
         /\ fm2[Len(fm2)] = [ctx |-> ctx, fails |-> <<link>>]

\* C7: fail_map has no key with an empty list and no key twice; it changes
\* only when a check returned False, and then by that target being added at
\* the end of the list of the document that was the source (a new document
\* after all earlier ones).
C7_FailureMapShape ==
    [][/\ \A i \in 1..Len(fail_map') : fail_map'[i].fails # <<>>
       /\ \A i, j \in 1..Len(fail_map') :
             fail_map'[i].ctx = fail_map'[j].ctx => i = j
       /\ IF IsResolve /\ ~last'.raised /\ ~last'.ret
          THEN AppendedTo(fail_map, fail_map', last'.ctx, last'.link)
          ELSE fail_map' = fail_map]_vars

\* two documents have failures, the first of them more than one, and its
\* last failure was recorded after the second document's first
C7_Witness ==
    /\ Len(fail_map) >= 2
    /\ Len(fail_map[1].fails) >= 2
    /\ last.n > 0 /\ ~last.filtered /\ ~last.ret
    /\ last.ctx = fail_map[1].ctx

\* ---------------------------------------------------------------------
\* C8
\* ---------------------------------------------------------------------

\* C8: a run ends with status 2 exactly when it met the configuration
\* conflict or a usage error; otherwise it ends with status 1 when fail_map
\* is not empty and with status 0 when it is empty.
C8_ExitStatus ==
    pc = "done" =>
        /\ status \in {0, 1, 2}
        /\ (status = 2) <=> (\/ (~test_local /\ ~test_external)
                             \/ (idx \in 1..Len(items) /\ IsBadItem(items[idx])))
        /\ status # 2 => ((status = 1) <=> (fail_map # <<>>))

\* ---------------------------------------------------------------------
\* C9
\* ---------------------------------------------------------------------

\* C9: a run that was ended by a usage error has printed the statistics and
\* the failures of the items handled before the error.
C9_StatsAfterUsageError ==
    UsageExit => /\ summary = get_stats(link_cnt, fail_cnt, seen_links)
                 /\ report = fail_map

\* ---------------------------------------------------------------------
\* C10
\* ---------------------------------------------------------------------

\* C10: test_items never goes past an item that is neither directory, file
\* nor URL: the run ends at the first such item with every earlier item
\* handled completely (its documents tested, no link left) and no later one
\* touched, and nothing changes after the run has ended.
C10_UsageErrorFatal ==
    [][/\ \A j \in 1..(idx' - 1) : j <= Len(items) => ~IsBadItem(items[j])
       /\ (UsageExit') =>
             /\ idx' <= Len(items) /\ IsBadItem(items[idx'])
             /\ tested' = DocsOfItems(idx' - 1)
             /\ todo' = {} /\ files' = <<>>
       /\ pc = "done" => UNCHANGED vars]_vars

\* the usage error came after a directory whose documents were tested and
\* whose links were checked
C10_Witness ==
    /\ UsageExit
    /\ idx = 2 /\ Len(tested) >= 2 /\ link_cnt > 0
    /\ status = 2

\* ---------------------------------------------------------------------
\* C11
\* ---------------------------------------------------------------------

\* the step is the call of test_link that test_items makes for a bare URL
IsItemCall == IsCall /\ pc = "items"

\* C11 (as stated): a bare URL item is checked as one remote target and,
\* when it fails, is recorded in fail_map with the item as key and as
\* target, also when the item carries a fragment.
C11_BareUrlUnderItself ==
    [][IsItemCall =>
          /\ last'.link = items[idx] /\ IsRemote(last'.link)
          /\ last'.ctx = last'.link
          /\ (IsResolve /\ ~last'.raised /\ ~last'.ret) =>
                AppendedTo(fail_map, fail_map', items[idx], items[idx])]_vars

\* C11 (amended): a bare URL item is checked as one remote target, in one
\* test_link call, and, when it fails, is recorded in fail_map with the item
\* as target under the key urldefrag(item)[0], the item without its
\* fragment; key and target are the same string exactly when the item has
\* no "#".
C11_BareUrlUnderBase ==
    [][IsItemCall =>
          /\ last'.link = items[idx] /\ IsRemote(last'.link)
          /\ last'.ctx = BaseOf(items[idx])
          /\ (last'.ctx = last'.link) <=> (Find(items[idx], "#") = 0)
          /\ idx' = idx + 1
          /\ (IsResolve /\ ~last'.raised /\ ~last'.ret) =>
                AppendedTo(fail_map, fail_map', BaseOf(items[idx]), items[idx])]_vars

\* two bare URL items failed, one with a fragment and one without, and both
\* are listed under the fragmentless URL
C11_Witness ==
    /\ pc = "items" /\ idx = 3
    /\ items = <<U_at, U_a>>
    /\ fail_map = <<[ctx |-> U_a, fails |-> <<U_at, U_a>>]>>
    /\ last.link = U_a /\ last.ctx = U_a

\* ---------------------------------------------------------------------
\* C12
\* ---------------------------------------------------------------------

\* the step is a _test_link call on a local target without a fragment
IsLocalPlainCall ==
    IsResolve /\ ~IsRemote(last'.link) /\ Find(last'.link, "#") = 0

\* C12 (as stated): every _test_link call on a local target without a
\* fragment, the first and every repeated one, returns True exactly when the
\* path exists on disk at the time of that call, however the filesystem
\* changed between the calls.
C12_ExistsAtEveryCall ==
    [][IsLocalPlainCall =>
          (~last'.raised /\ last'.ret = exists(fs, last'.link))]_vars

\* C12 (amended): the first _test_link call on a local target without a
\* fragment stats the path and returns True exactly when it exists on disk
\* at the time of that call; every repeated call returns the value of the
\* first call from seen_links without asking the filesystem, whatever
\* happened to the path in between.
C12_ExistsAtFirstCall ==
    [][IsLocalPlainCall =>
          /\ ~last'.raised
          /\ IF last'.link \in DOMAIN seen_links
             THEN last'.ret = seen_links[last'.link] /\ last'.io = NoIO
             ELSE /\ last'.ret = exists(fs, last'.link)
                  /\ last'.io = << <<"stat", last'.link>> >>]_vars

\* /s/m was checked twice: found missing when first checked, created
\* afterwards, and reported missing again from seen_links
C12_Witness ==
    /\ last.n > 1 /\ ~last.filtered
    /\ last.link = P_m /\ last.io = NoIO /\ ~last.ret
    /\ P_m \in DOMAIN probes /\ probes[P_m] = 1
    /\ fs = FsWithM
    /\ pc \in {"file", "dirfile"}

\* ---------------------------------------------------------------------
\* C13
\* ---------------------------------------------------------------------

\* the directory reached from stack by the path components comps, taken one
\* after the other: "" and "." stay, ".." goes up (the root is its own
\* parent), a name goes down
RECURSIVE WalkPath(_, _)
WalkPath(stack, comps) ==
    IF Len(comps) = 0 THEN stack
    ELSE IF comps[1] = <<>> \/ comps[1] = <<".">>
         THEN WalkPath(stack, Tail(comps))
         ELSE IF comps[1] = <<".", ".">>
              THEN WalkPath(IF Len(stack) = 0 THEN stack
                            ELSE SubSeq(stack, 1, Len(stack) - 1), Tail(comps))
              ELSE WalkPath(Append(stack, comps[1]), Tail(comps))

\* the absolute path without ".", ".." and doubled slashes that names what
\* the path p, relative to the working directory, names
CanonicalPath(p) ==
    <<"/">> \o JoinWith(WalkPath(IF StartsWith(p, "/") THEN <<>>
                                  ELSE WalkPath(<<>>, Split(Cwd, "/")),
                                  Split(p, "/")), "/")

\* the pairs (base, referrer) that all stand for the directory s
SameDirectory ==
    { <<<<".", ".", "/">>, R_sub>>, <<<<>>, R_par>>, <<<<".", "/">>, R_par>>,
      <<<<".", ".", "/", ".", ".", "/">>, R_two>>, <<<<".", ".", "/">>, R_dir>> }

RebaseDone == pc = "rebase" /\ rebase.out # None

\* what C13 says of every link but for the fragment
RebaseContract ==
    IF IsRemote(rebase.lnk)
    THEN IsRemote(rebase.baseurl) \/ rebase.out = rebase.lnk
    ELSE /\ rebase.out = CanonicalPath(dirname(rebase.referrer_path) \o <<"/">>
                                        \o rebase.baseurl \o <<"/">> \o rebase.lnk)
         /\ <<rebase.baseurl, rebase.referrer_path>> \in SameDirectory
               => rebase.out = CanonicalPath(<<"s", "/">> \o rebase.lnk)

\* C13 (as stated): for a link without a scheme rebase_link gives the
\* canonical path of the link taken below the referrer's directory and the
\* base, so that the pairs of SameDirectory all give the same path, and the
\* fragment of every such link is kept; a link with a scheme is returned
\* unchanged for an empty or relative base, whatever the referrer.
C13_RebaseKeepsFragment ==
    RebaseDone =>
        /\ RebaseContract
        /\ ~IsRemote(rebase.lnk) => FragOf(rebase.out) = FragOf(rebase.lnk)

\* C13 (amended): as above, but the fragment is kept for a link whose
\* fragment holds no "/": the fragment is canonicalized with the path it is
\* part of.
C13_RebaseCorrect ==
    RebaseDone =>
        /\ RebaseContract
        /\ (~IsRemote(rebase.lnk) /\ Find(FragOf(rebase.lnk), "/") = 0)
              => FragOf(rebase.out) = FragOf(rebase.lnk)

\* a link with a fragment, found in a document of s/u with <base href="../">,
\* was rebased to directory s
C13_Witness ==
    /\ RebaseDone
    /\ rebase.lnk = <<"k", "/", "x", "#", "t">>
    /\ rebase.baseurl = <<".", ".", "/">>
    /\ rebase.referrer_path = R_sub
    /\ rebase.out = <<"/", "s", "/", "k", "/", "x", "#", "t">>

\* ---------------------------------------------------------------------
\* C14
\* ---------------------------------------------------------------------

\* number of loads counted in ld for the identities of the set xs
RECURSIVE SumLoads(_, _)
SumLoads(ld, xs) ==
    IF xs = {} THEN 0
    ELSE LET x == CHOOSE y \in xs : TRUE
         IN ld[x] + SumLoads(ld, xs \ {x})

\* the file or URL an identity names
DocumentOf(x) == IF IsRemote(x) THEN x ELSE realpath(x)

\* C14 (as stated): whatever test_file calls and local or remote fragment
\* checks a scan makes, no document (file or URL) is read or fetched, and
\* parsed, more than once, and an entry of soup_mapping is never removed or
\* replaced.
C14_DocumentLoadedOnce ==
    [][/\ \A x \in DOMAIN soup_mapping :
             x \in DOMAIN soup_mapping' /\ soup_mapping'[x] = soup_mapping[x]
       /\ \A x \in DOMAIN loads' :
             SumLoads(loads', {y \in DOMAIN loads' : DocumentOf(y) = DocumentOf(x)}) = 1]_vars

\* C14 (amended): whatever test_file calls and local or remote fragment
\* checks a scan makes, no identity (the path or URL string that is the key
\* of soup_mapping) is read or fetched, and parsed, more than once, a
\* document is read or fetched only when soup_mapping does not hold its
\* identity, and an entry of soup_mapping is never removed or replaced.
C14_DocumentCacheMemo ==
    [][/\ \A x \in DOMAIN soup_mapping :
             x \in DOMAIN soup_mapping' /\ soup_mapping'[x] = soup_mapping[x]
       /\ \A x \in DOMAIN loads' :
             /\ loads'[x] = 1
             /\ x \in DOMAIN soup_mapping'
             /\ (x \notin DOMAIN loads) => (x \notin DOMAIN soup_mapping)
       /\ IsCall => \A i \in 1..Len(last'.io) :
             last'.io[i][1] \in {"GET", "read"} =>
                last'.io[i][2] \notin DOMAIN soup_mapping]_vars

\* /s/u/b.HTM was read for a fragment check and was handed to test_file
\* afterwards, once under the same identity (not read again) and once, by
\* the walk of "s", under another one (read again); h:a was fetched for a
\* fragment check; every identity was loaded once
C14_Witness ==
    /\ items = <<Rel_s, P_b>> /\ idx = 2 /\ pc = "file" /\ todo = {}
    /\ tested = <<Rel_s \o SubSeq(P_a, 3, Len(P_a)),
                  Rel_s \o SubSeq(P_b, 3, Len(P_b)), P_b>>
    /\ (P_b \o <<"#", "k">>) \in DOMAIN seen_links
    /\ P_b \in DOMAIN loads /\ U_a \in DOMAIN loads
    /\ \A x \in DOMAIN loads : loads[x] = 1
    /\ DOMAIN soup_mapping = DOMAIN loads
    /\ Cardinality(DOMAIN loads) = 4

\* ---------------------------------------------------------------------
\* C15
\* ---------------------------------------------------------------------

\* a GET of x has failed during a fragment check: some "x#frag" is cached
\* False although no dead base kept it from being fetched (a link that the
\* dead-base return answers is not stored) and the document of x was never
\* parsed.  A failed read of a local base is an exception of open(), which
\* ends the run.
LoadFailed(x) ==
    \E l \in DOMAIN seen_links :
        /\ IsRemote(l) /\ Find(l, "#") > 0 /\ BaseOf(l) = x
        /\ ~seen_links[l]
        /\ x \notin DOMAIN soup_mapping

\* C15: once a GET of x has failed during a fragment check, no later
\* test_link call of the scan, for the same or another fragment of x, issues
\* a GET of x.
C15_FailedLoadNotRepeated ==
    [][IsCall => \A i \in 1..Len(last'.io) :
                    last'.io[i][1] = "GET" => ~LoadFailed(last'.io[i][2])]_vars

\* ---------------------------------------------------------------------
\* C16
\* ---------------------------------------------------------------------

\* C16 (as stated): in every reachable state, if seen_links holds False for
\* a fragmentless base X then it holds True for no "X#frag".
C16_DeadBaseDeadFragments ==
    \A l \in DOMAIN seen_links : DeadBase(l, seen_links) => ~seen_links[l]

\* C16 (amended): an entry of seen_links never changes, and no "X#frag"
\* becomes cached as True while seen_links holds False for its fragmentless
\* base X; an "X#frag" that seen_links holds as True beside a False X was
\* therefore cached as True before X was.
C16_NoTrueFragmentAfterDeadBase ==
    [][/\ \A l \in DOMAIN seen_links :
             l \in DOMAIN seen_links' /\ seen_links'[l] = seen_links[l]
       /\ \A l \in DOMAIN seen_links' :
             (DeadBase(l, seen_links) /\ seen_links'[l])
                 => (l \in DOMAIN seen_links /\ seen_links[l])]_vars

\* h:a and /s/m were cached False, and their fragmented forms h:a#t and
\* /s/m#t, checked afterwards, are not cached as True although the GET of
\* h:a would succeed and find the anchor
C16_Witness ==
    /\ seen_links = (U_a :> FALSE) @@ (P_m :> FALSE)
    /\ link_cnt = 4
    /\ items = <<U_a, P_b>> /\ fname = P_b /\ todo = {}
    /\ get_res[U_a] = "ok"

\* ---------------------------------------------------------------------
\* C17
\* ---------------------------------------------------------------------

\* the step is a _test_link call on a link that seen_links neither holds
\* nor answers through a dead base
IsFirstSight ==
    /\ IsResolve
    /\ last'.link \notin DOMAIN seen_links
    /\ ~DeadBase(last'.link, seen_links)

\* the anchor lookup: an element with that id or that name
HasAnchor(doc, fragment) == fragment \in (doc.ids \cup doc.names)

\* the probes C17 allows for link l in the current state and the value
\* each of them gives
ProbeAsSpecified(l, io, ret) ==
    LET x  == BaseOf(l)
        fr == FragOf(l)
    IN IF IsRemote(l)
       THEN IF Find(l, "#") = 0
            THEN /\ io = << <<"HEAD", l>> >>
                 /\ ret = (l \in head_ok)
            ELSE IF x \in DOMAIN soup_mapping
                 THEN /\ io = NoIO
                      /\ ret = HasAnchor(soup_mapping[x], fr)
                 ELSE /\ io = << <<"GET", x>> >>
                      /\ ret = (get_res[x] = "ok" /\ HasAnchor(Web[x], fr))
       ELSE IF Find(l, "#") = 0
            THEN /\ io = << <<"stat", l>> >>
                 /\ ret = exists(fs, l)
            ELSE IF x \in DOMAIN soup_mapping
                 THEN /\ io = NoIO
                      /\ ret = HasAnchor(soup_mapping[x], fr)
                 ELSE IF exists(fs, x)
                      THEN /\ io = << <<"stat", x>>, <<"read", x>> >>
                           /\ ret = HasAnchor(Lookup(fs, x).data, fr)
                      ELSE /\ io = << <<"stat", x>> >>
                           /\ ret = FALSE

\* C17: a _test_link call on a link seen for the first time and not
\* answered through a dead base issues one HEAD and no GET for a remote link
\* without fragment; no HEAD, and one GET unless soup_mapping holds the
\* base, for a remote link with a fragment; a stat and no read for a local
\* link without fragment; a read, only if the file exists and soup_mapping
\* does not hold it, for a local link with a fragment.  It returns the
\* outcome of that probe (for a fragment, of the anchor lookup by id or
\* name) and stores it in seen_links under the full link.
C17_ProbeSelection ==
    [][IsFirstSight =>
          /\ ~last'.raised
          /\ ProbeAsSpecified(last'.link, last'.io, last'.ret)
          /\ last'.link \in DOMAIN seen_links'
          /\ seen_links'[last'.link] = last'.ret]_vars

\* ---------------------------------------------------------------------
\* C18
\* ---------------------------------------------------------------------

\* the base of the fragmented link l cannot be loaded: the GET of a remote
\* base does not answer ok, or the local path does not exist
Unloadable(l) ==
    /\ Find(l, "#") > 0 /\ FragOf(l) # <<>>
    /\ BaseOf(l) \notin DOMAIN soup_mapping
    /\ IF IsRemote(l) THEN get_res[BaseOf(l)] # "ok"
       ELSE ~exists(fs, BaseOf(l))

\* C18: a fragment check whose base cannot be loaded returns False whatever
\* anchors the document has, does not read the missing file, and leaves
\* soup_mapping as it was; soup_mapping holds an identity only if it was
\* loaded (a GET answered ok, or an existing file was read) and parsed.
C18_FailedLoadLeavesNoDocument ==
    [][/\ (IsFirstSight /\ Unloadable(last'.link)) =>
             /\ ~last'.raised /\ last'.ret = FALSE
             /\ \A i \in 1..Len(last'.io) : last'.io[i][1] # "read"
             /\ soup_mapping' = soup_mapping
       /\ \A x \in DOMAIN soup_mapping' :
             /\ x \in DOMAIN loads'
             /\ IF IsRemote(x) THEN get_res[x] = "ok" ELSE isfile(fs, x)]_vars

\* the GET of h:a raised during the check of h:a#t, whose anchor the
\* document has, and /s/m#t was found missing by a stat: both are cached
\* False and neither base is in soup_mapping
C18_Witness ==
    /\ get_res[U_a] = "exc" /\ HasAnchor(Web[U_a], FragOf(U_at))
    /\ U_at \in DOMAIN seen_links /\ ~seen_links[U_at]
    /\ last.n > 0 /\ ~last.filtered /\ ~last.ret
    /\ last.link = P_m \o <<"#", "t">>
    /\ last.io = << <<"stat", P_m>> >>
    /\ U_a \notin DOMAIN soup_mapping /\ P_m \notin DOMAIN soup_mapping
    /\ P_b \in DOMAIN soup_mapping

\* ---------------------------------------------------------------------
\* C19
\* ---------------------------------------------------------------------

\* what _test_link returns for l when l is the first link the loop of
\* test_file takes: seen_links is empty, soup_mapping as it is
VerdictWhenFirst(l) ==
    _test_link(l, urlsplit_scheme(l), EmptyMap, soup_mapping, fs, fs, head_ok,
               get_res).ret

\* C19: the result of a link does not depend on the order in which the loop
\* of test_file takes the links of a document: whatever links of the first
\* document were checked before it, a link gets the result it gets when the
\* loop takes it first.
C19_OrderIndependent ==
    [][(IsResolve /\ ~last'.raised /\ idx = 1 /\ Len(tested) = 1
          /\ pc \in {"file", "dirfile"})
         => last'.ret = VerdictWhenFirst(last'.link)]_vars

\* ---------------------------------------------------------------------
\* C20
\* ---------------------------------------------------------------------

\* number of targets listed in the first k entries of fm
RECURSIVE FailEntries(_, _)
FailEntries(fm, k) ==
    IF k = 0 THEN 0 ELSE FailEntries(fm, k - 1) + Len(fm[k].fails)

\* C20: in every state of a scan fail_cnt is the number of targets listed
\* in fail_map over all its documents, 0 <= fail_cnt <= link_cnt, and
\* seen_links has at most link_cnt entries.
C20_CounterConsistency ==
    /\ fail_cnt = FailEntries(fail_map, Len(fail_map))
    /\ 0 <= fail_cnt /\ fail_cnt <= link_cnt
    /\ Cardinality(DOMAIN seen_links) <= link_cnt

\* a scan ended with failures listed for two documents, one target listed
\* twice for the same document, fewer failures than checks and fewer cached
\* links than checks
C20_Witness ==
    /\ pc = "done" /\ status = 1
    /\ Len(fail_map) = 2
    /\ \E i \in 1..2 : \E j, k \in 1..Len(fail_map[i].fails) :
          j # k /\ fail_map[i].fails[j] = fail_map[i].fails[k]
    /\ fail_cnt < link_cnt
    /\ Cardinality(DOMAIN seen_links) < link_cnt

====
